---- MODULE Spec2Model ----
(***************************************************************************)
(* fidcsv (src/fidcsv/main.py): per-EIN aggregation of a donation table    *)
(* (compute_ein_aggregates), the per-batch row builder (process_batch) and *)
(* the batch loop of main.                                                 *)
(*                                                                         *)
(* Values.  A cell of the table, and a value stored in a result, is a      *)
(* record [k, v, s]:                                                       *)
(*   k = "null"  NaN / None / NaT                                          *)
(*   k = "num"   a float, v in hundredths                                  *)
(*   k = "int"   a Python int, v                                           *)
(*   k = "date"  a Timestamp, v its day as yyyymmdd                        *)
(*   k = "str"   a string, s its characters                                *)
(* pandas is modelled as pandas 1.x/2.x behaves: astype(float,             *)
(* errors="ignore") gives the input back unchanged when one element does   *)
(* not convert; sum/max of an object column work on the Python objects.    *)
(***************************************************************************)
EXTENDS Integers, Sequences, FiniteSets, TLC

\* ------------------------------------------------------------------ bounds
\* Rows of a table drawn for compute_ein_aggregates.
MaxRows == 3
\* Rows of a table drawn for main.
MaxMainRows == 3

\* ------------------------------------------------------------------ values
Null == [k |-> "null", v |-> 0, s |-> <<>>]
Num(n) == [k |-> "num", v |-> n, s |-> <<>>]
IntV(n) == [k |-> "int", v |-> n, s |-> <<>>]
DateV(n) == [k |-> "date", v |-> n, s |-> <<>>]
Str(cs) == [k |-> "str", v |-> 0, s |-> cs]

\* Character codes, for Python's string comparison.
Ord(c) ==
    CASE c = "$" -> 36 [] c = "," -> 44 [] c = "-" -> 45 [] c = "." -> 46
      [] c = "0" -> 48 [] c = "1" -> 49 [] c = "2" -> 50 [] c = "3" -> 51
      [] c = "4" -> 52 [] c = "5" -> 53 [] c = "6" -> 54 [] c = "7" -> 55
      [] c = "8" -> 56 [] c = "9" -> 57
      [] c = "a" -> 97 [] c = "b" -> 98 [] c = "d" -> 100
      [] OTHER -> 127

Digits == {"0", "1", "2", "3", "4", "5", "6", "7", "8", "9"}
DigitVal(c) == Ord(c) - 48

RECURSIVE StrLess(_, _)
\* Python's a < b on strings.
StrLess(a, b) ==
    IF b = <<>> THEN FALSE
    ELSE IF a = <<>> THEN TRUE
    ELSE IF Head(a) = Head(b) THEN StrLess(Tail(a), Tail(b))
    ELSE Ord(Head(a)) < Ord(Head(b))

\* re.sub(r"[\$,]", "", s)
StripCurrency(cs) == SelectSeq(cs, LAMBDA c : c \notin {"$", ","})

RECURSIVE DigitsValue(_, _)
\* The integer written by the digit string cs, continuing from acc.
DigitsValue(cs, acc) ==
    IF cs = <<>> THEN acc ELSE DigitsValue(Tail(cs), 10 * acc + DigitVal(Head(cs)))

\* Position of the first "." of cs, or Len(cs) + 1.
DotPos(cs) ==
    IF \E i \in 1..Len(cs) : cs[i] = "."
    THEN CHOOSE i \in 1..Len(cs) : cs[i] = "." /\ \A j \in 1..(i - 1) : cs[j] # "."
    ELSE Len(cs) + 1

\* float(s) for the strings of the table: an optional sign, digits with at
\* most one ".", at least one digit.  ok = FALSE is ValueError.  The value
\* is in hundredths; the table's strings have at most two fraction digits.
ParseFloat(cs) ==
    LET neg == cs # <<>> /\ Head(cs) = "-"
        body == IF cs # <<>> /\ Head(cs) \in {"-", "+"} THEN Tail(cs) ELSE cs
        dot == DotPos(body)
        ip == SubSeq(body, 1, dot - 1)
        fp == SubSeq(body, dot + 1, Len(body))
        wellformed == /\ \A i \in 1..Len(ip) : ip[i] \in Digits
                      /\ \A i \in 1..Len(fp) : fp[i] \in Digits
                      /\ Len(ip) + Len(fp) >= 1
        fp2 == SubSeq(fp \o <<"0", "0">>, 1, 2)
        mag == 100 * DigitsValue(ip, 0) + DigitsValue(fp2, 0)
    IN  IF wellformed THEN [ok |-> TRUE, v |-> IF neg THEN 0 - mag ELSE mag]
        ELSE [ok |-> FALSE, v |-> 0]

\* pd.to_datetime(x, errors="coerce") of one cell: an ISO date YYYY-MM-DD
\* parses, a number is nanoseconds after 1970-01-01 (the table's numbers
\* stay within that day), anything else is NaT.
ToDatetime(c) ==
    IF c.k = "num" THEN DateV(19700101)
    ELSE IF c.k # "str" THEN Null
    ELSE LET cs == c.s
             shaped == /\ Len(cs) = 10
                       /\ cs[5] = "-" /\ cs[8] = "-"
                       /\ \A i \in {1, 2, 3, 4, 6, 7, 9, 10} : cs[i] \in Digits
             y == DigitsValue(SubSeq(cs, 1, 4), 0)
             m == DigitsValue(SubSeq(cs, 6, 7), 0)
             d == DigitsValue(SubSeq(cs, 9, 10), 0)
             leap == y % 4 = 0 /\ (y % 100 # 0 \/ y % 400 = 0)
             dim == IF m = 2 THEN (IF leap THEN 29 ELSE 28)
                    ELSE IF m \in {4, 6, 9, 11} THEN 30 ELSE 31
         IN  IF shaped /\ y >= 1 /\ m \in 1..12 /\ d \in 1..dim
             THEN DateV(10000 * y + 100 * m + d)
             ELSE Null

\* ------------------------------------------------------------------- table
\* A row maps each column name to a cell; a table (DataFrame) is a sequence
\* of rows over the columns below.
Columns == {"Tax ID", "Amount"}

\* The dtype pandas gives a column: object when it holds a string, else
\* float64.
Dtype(df, col) ==
    IF \E i \in 1..Len(df) : df[i][col].k = "str" THEN "object" ELSE "float64"

\* dict.get(key, default)
Get(d, key, default) == IF key \in DOMAIN d THEN d[key] ELSE default

\* df[df["Tax ID"] == ein]  (NaN equals nothing)
EinData(df, ein) ==
    SelectSeq(df, LAMBDA r : r["Tax ID"].k # "null" /\ r["Tax ID"] = ein)

\* ein_data[csv_field]: the cells, in row order.
ColumnData(ein_data, csv_field) ==
    [i \in 1..Len(ein_data) |-> ein_data[i][csv_field]]

\* column_data.str.replace(r"[\$,]", "", regex=True): the .str accessor
\* raises AttributeError on a column that is not of strings; on an object
\* column a cell that is not a string becomes NaN.
StrReplace(column_data, dtype) ==
    IF dtype # "object" THEN [raised |-> TRUE, data |-> <<>>]
    ELSE [raised |-> FALSE,
          data |-> [i \in 1..Len(column_data) |->
                      IF column_data[i].k = "str"
                      THEN Str(StripCurrency(column_data[i].s)) ELSE Null]]

\* Whether float(x) succeeds on a cell.
Converts(c) == c.k \in {"num", "null"} \/ (c.k = "str" /\ ParseFloat(c.s).ok)

\* series.astype(float, errors="ignore"): every element converted, or, when
\* one does not convert, the series as it was.
AstypeFloatIgnore(series) ==
    IF \A i \in 1..Len(series) : Converts(series[i])
    THEN [i \in 1..Len(series) |->
            IF series[i].k = "str" THEN Num(ParseFloat(series[i].s).v) ELSE series[i]]
    ELSE series

IsObject(series) == \E i \in 1..Len(series) : series[i].k = "str"

RECURSIVE NumSum(_)
\* Sum of a float series, NaN skipped; 0.0 when nothing is left.
NumSum(series) ==
    IF series = <<>> THEN 0
    ELSE (IF Head(series).k = "num" THEN Head(series).v ELSE 0) + NumSum(Tail(series))

RECURSIVE Concat(_)
\* Python's + over the strings of an object series.
Concat(series) ==
    IF series = <<>> THEN <<>> ELSE Head(series).s \o Concat(Tail(series))

\* Series.sum(): on a float series the sum of the values that are not NaN;
\* on an object series Python's + over the elements with NaN replaced by 0,
\* which concatenates strings and raises TypeError for a string and 0.
SeriesSum(series) ==
    IF ~IsObject(series) THEN [raised |-> FALSE, val |-> Num(NumSum(series))]
    ELSE IF \E i \in 1..Len(series) : series[i].k # "str"
    THEN [raised |-> TRUE, val |-> Null]
    ELSE [raised |-> FALSE, val |-> Str(Concat(series))]

\* Series.max(): on a float series the largest value that is not NaN, NaN
\* when there is none; on an object series Python's comparison over the
\* elements with NaN replaced by -inf, which raises TypeError for a string
\* and a float.
SeriesMax(series) ==
    IF ~IsObject(series)
    THEN LET vs == {series[i].v : i \in {j \in 1..Len(series) : series[j].k = "num"}}
         IN  [raised |-> FALSE,
              val |-> IF vs = {} THEN Null
                      ELSE Num(CHOOSE m \in vs : \A x \in vs : x <= m)]
    ELSE IF \E i \in 1..Len(series) : series[i].k # "str"
    THEN [raised |-> TRUE, val |-> Null]
    ELSE LET ss == {series[i].s : i \in 1..Len(series)}
         IN  [raised |-> FALSE,
              val |-> Str(CHOOSE m \in ss : \A x \in ss : ~StrLess(m, x))]

\* pd.to_datetime(column_data, errors="coerce").max(): NaT skipped, NaT when
\* nothing parses.
DatetimeMax(column_data) ==
    LET ds == {ToDatetime(column_data[i]).v :
                 i \in {j \in 1..Len(column_data) : ToDatetime(column_data[j]).k = "date"}}
    IN  IF ds = {} THEN Null ELSE DateV(CHOOSE m \in ds : \A x \in ds : x <= m)
\* -------------------------------------------------- compute_ein_aggregates
\* A field configuration is a record holding the keys the configuration file
\* gives (include, csv_field, aggregation, data_clean); aggregate_config is a
\* sequence of [name, cfg], in the order of the file.
None == "None"

\* Lines 44-49: aggregation == "sum".
AggSum(column_data, dtype, data_clean) ==
    IF data_clean = "currency"
    THEN LET rep == StrReplace(column_data, dtype)
         IN  IF rep.raised THEN [raised |-> TRUE, val |-> Null]
             ELSE SeriesSum(AstypeFloatIgnore(rep.data))
    ELSE SeriesSum(AstypeFloatIgnore(column_data))

\* Lines 54-59: aggregation == "max".
AggMax(column_data, dtype, data_clean) ==
    IF data_clean = "currency"
    THEN LET rep == StrReplace(column_data, dtype)
         IN  IF rep.raised THEN [raised |-> TRUE, val |-> Null]
             ELSE SeriesMax(AstypeFloatIgnore(rep.data))
    ELSE [raised |-> FALSE, val |-> DatetimeMax(column_data)]

\* Line 32 with the default of a missing include flag turned to True.
IncludedByDefault(field_config) == Get(field_config, "include", TRUE)

\* Line 32: the field is processed only when its include flag is true.
Included(field_config) == Get(field_config, "include", FALSE)

\* Line 39: csv_field not in ein_data.columns (a missing csv_field is None).
NoColumn(csv_field) == csv_field \notin Columns

\* One turn of the loop of lines 31-62 for one field: what happens to the
\* result.  act = "skip": nothing stored; "store": result[field_name] = val;
\* "raise": an exception leaves the function.
FieldStep(df, ein_data, field_config) ==
    LET csv_field == Get(field_config, "csv_field", None)
        aggregation == Get(field_config, "aggregation", None)
        data_clean == Get(field_config, "data_clean", "none")
        column_data == ColumnData(ein_data, csv_field)
        dtype == Dtype(df, csv_field)
        out(r) == IF r.raised THEN [act |-> "raise", val |-> Null]
                  ELSE [act |-> "store", val |-> r.val]
    IN  IF ~Included(field_config) THEN [act |-> "skip", val |-> Null]
        ELSE IF NoColumn(csv_field) THEN [act |-> "skip", val |-> Null]
        ELSE IF aggregation = "sum" THEN out(AggSum(column_data, dtype, data_clean))
        ELSE IF aggregation = "count" THEN [act |-> "store", val |-> IntV(Len(ein_data))]
        ELSE IF aggregation = "max" THEN out(AggMax(column_data, dtype, data_clean))
        ELSE IF aggregation = "first"
             THEN [act |-> "store",
                   val |-> IF Len(column_data) > 0 THEN column_data[1] ELSE Null]
        ELSE [act |-> "skip", val |-> Null]

\* result[field_name] = val on an insertion-ordered dict, kept as a sequence
\* of [name, val].
DictSet(result, field_name, val) ==
    IF \E i \in 1..Len(result) : result[i].name = field_name
    THEN [i \in 1..Len(result) |->
            IF result[i].name = field_name THEN [name |-> field_name, val |-> val]
            ELSE result[i]]
    ELSE Append(result, [name |-> field_name, val |-> val])

RECURSIVE AggLoop(_, _, _, _, _)
\* The loop of lines 31-62 from field i on.
AggLoop(df, ein_data, aggregate_config, i, result) ==
    IF i > Len(aggregate_config) THEN [raised |-> FALSE, result |-> result]
    ELSE LET st == FieldStep(df, ein_data, aggregate_config[i].cfg)
         IN  IF st.act = "raise" THEN [raised |-> TRUE, result |-> <<>>]
             ELSE AggLoop(df, ein_data, aggregate_config, i + 1,
                          IF st.act = "store"
                          THEN DictSet(result, aggregate_config[i].name, st.val)
                          ELSE result)

\* Lines 28-29 returning a default for every included field.
EmptyResultDefaults(ein_data, aggregate_config) ==
    LET inc == SelectSeq(aggregate_config, LAMBDA e : Get(e.cfg, "include", FALSE))
    IN  [i \in 1..Len(inc) |-> [name |-> inc[i].name, val |-> Null]]

\* Lines 28-29: the early return for a key without rows.
EmptyResult(ein_data, aggregate_config) == <<>>

\* compute_ein_aggregates(df, ein, aggregate_config): raised = TRUE when an
\* exception leaves the call, else result is the returned dict.
compute_ein_aggregates(df, ein, aggregate_config) ==
    LET ein_data == EinData(df, ein)
    IN  IF ein_data = <<>>
        THEN [raised |-> FALSE, result |-> EmptyResult(ein_data, aggregate_config)]
        ELSE AggLoop(df, ein_data, aggregate_config, 1, <<>>)
\* ------------------------------------------------------------------ inputs
\* Tax IDs.  E3 is in no table.
E1 == Str(<<"1", "1">>)
E2 == Str(<<"2", "2">>)
E3 == Str(<<"3", "3">>)

\* Cells of the Amount column: "$1,000.00", "$250.50", "bad", an empty cell
\* (NaN) and the number 100.0 of a column read as numbers.
Amount1 == Str(<<"$", "1", ",", "0", "0", "0", ".", "0", "0">>)
Amount2 == Str(<<"$", "2", "5", "0", ".", "5", "0">>)
Bad == Str(<<"b", "a", "d">>)
AmountCells == {Amount1, Amount2, Bad, Null, Num(10000)}

Row(tax_id, amount) == [c \in Columns |-> IF c = "Tax ID" THEN tax_id ELSE amount]

RECURSIVE SeqsUpTo(_, _)
\* The sequences over S of length at most n.
SeqsUpTo(S, n) ==
    IF n = 0 THEN {<<>>}
    ELSE LET shorter == SeqsUpTo(S, n - 1)
         IN  shorter \cup {Append(q, x) : q \in {r \in shorter : Len(r) = n - 1}, x \in S}

\* pd.read_csv gives a column of numbers (and NaN) or of strings (and NaN),
\* never both.
ReadCsvTyped(df) ==
    ~ (/\ \E i \in 1..Len(df) : df[i]["Amount"].k = "str"
       /\ \E i \in 1..Len(df) : df[i]["Amount"].k = "num")

\* The tables compute_ein_aggregates is applied to.
AggTables ==
    {df \in SeqsUpTo({Row(k, a) : k \in {E1, E2}, a \in AmountCells}, MaxRows) :
        ReadCsvTyped(df)}

\* The field configurations: every combination of the keys a configuration
\* entry may give or leave out.
OptionalKey(key, values) == {<<>>} \cup {<<key, x>> : x \in values}

AsRecord(pairs) ==
    [key \in {p[1] : p \in pairs} |-> (CHOOSE p \in pairs : p[1] = key)[2]]

FieldConfigs ==
    {AsRecord({i, c, a, d} \ {<<>>}) :
        i \in OptionalKey("include", {TRUE, FALSE}),
        c \in OptionalKey("csv_field", {"Amount", "Gift Date"}),
        a \in {<<"aggregation", x>> : x \in {"sum", "count", "max", "first", "average"}},
        d \in OptionalKey("data_clean", {"currency", "none"})}
\* Names of the aggregated fields, in configuration order.
AggNames == <<"total_donated", "donation_count">>

\* Entries that accompany another one in a two-entry configuration: a count
\* of the rows, and an entry without an include flag.
Companions ==
    {[include |-> TRUE, csv_field |-> "Amount", aggregation |-> "count"],
     [csv_field |-> "Amount", aggregation |-> "first"]}

Entry(name, cfg) == [name |-> name, cfg |-> cfg]

\* The aggregation configurations: one entry, or two of which one is a
\* companion.
AggConfigs ==
    {<<Entry(AggNames[1], f)>> : f \in FieldConfigs}
    \cup {<<Entry(AggNames[1], f), Entry(AggNames[2], c)>> :
            f \in FieldConfigs, c \in Companions}
    \cup {<<Entry(AggNames[1], c), Entry(AggNames[2], f)>> :
            f \in FieldConfigs, c \in Companions}

\* ----------------------------------------------------------- process_batch
\* hasattr(obj, field): an evaluation result is a record of its attributes,
\* the nested results (financial_metrics, ...) records in turn; None is the
\* record without attributes.
HasAttr(obj, field) == field \in DOMAIN obj

\* The nested results extract_field_value looks into, in its order.
SubResults ==
    <<"financial_metrics", "compliance_check", "external_validation",
      "organization_type">>

\* extract_field_value(result, field), lines 66-77.
extract_field_value(result, field) ==
    IF HasAttr(result, field) THEN result[field]
    ELSE LET hits == {i \in 1..Len(SubResults) :
                        /\ HasAttr(result, SubResults[i])
                        /\ HasAttr(result[SubResults[i]], field)}
         IN  IF hits = {} THEN Null
             ELSE result[SubResults[CHOOSE i \in hits : \A j \in hits : i <= j]][field]

RECURSIVE DictUpdate(_, _)
\* row_data.update(aggregates), line 89.
DictUpdate(row_data, aggregates) ==
    IF aggregates = <<>> THEN row_data
    ELSE DictUpdate(DictSet(row_data, Head(aggregates).name, Head(aggregates).val),
                    Tail(aggregates))

\* Lines 87-89: the row of one key, from the provider's result and the
\* key's aggregates.
RowData(fields, result, aggregates) ==
    DictUpdate([i \in 1..Len(fields) |->
                  [name |-> fields[i], val |-> extract_field_value(result, fields[i])]],
               aggregates)

\* dict lookup, NaN for a missing key (what DataFrame puts in the cell).
DictGet(d, key) ==
    IF \E i \in 1..Len(d) : d[i].name = key
    THEN d[CHOOSE i \in 1..Len(d) : d[i].name = key].val
    ELSE Null

RECURSIVE DictKeys(_, _)
\* The keys of the dicts of rows, each once, in the order met.
DictKeys(rows, seen) ==
    IF rows = <<>> THEN seen
    ELSE LET new == SelectSeq([i \in 1..Len(Head(rows)) |-> Head(rows)[i].name],
                              LAMBDA k : \A j \in 1..Len(seen) : seen[j] # k)
         IN  DictKeys(Tail(rows), seen \o new)

\* Line 92 without columns=fields: the columns are the keys of the dicts.
DataFrameAllKeys(rows, fields) ==
    LET cols == DictKeys(rows, <<>>)
    IN  [columns |-> cols,
         data |-> [r \in 1..Len(rows) |->
                     [c \in 1..Len(cols) |-> DictGet(rows[r], cols[c])]]]

\* pd.DataFrame(rows, columns=fields), line 92: one row per dict, the
\* columns those of fields, in that order.
DataFrame(rows, fields) ==
    [columns |-> fields,
     data |-> [r \in 1..Len(rows) |->
                 [c \in 1..Len(fields) |-> DictGet(rows[r], fields[c])]]]

\* -------------------------------------------------------------------- main
RECURSIVE Unique(_, _)
\* Series.dropna().unique(): the values that are not NaN, each once, in the
\* order of their first row.
Unique(cells, seen) ==
    IF cells = <<>> THEN <<>>
    ELSE IF Head(cells).k = "null" \/ Head(cells) \in seen THEN Unique(Tail(cells), seen)
    ELSE <<Head(cells)>> \o Unique(Tail(cells), seen \cup {Head(cells)})

Min(a, b) == IF a <= b THEN a ELSE b

\* A Python slice xs[start:end] with 0 <= start.
Slice(xs, start, end) == SubSeq(xs, start + 1, Min(end, Len(xs)))

\* Lines 112-118: the keys of the run.
UniqueEins(table, limit) ==
    LET all == Unique([i \in 1..Len(table) |-> table[i]["Tax ID"]], {})
    IN  IF limit > 0 THEN Slice(all, 0, limit) ELSE all

\* Lines 120-124.
IncludedFields(fields) ==
    LET inc == SelectSeq(fields, LAMBDA f : f.include)
    IN  [i \in 1..Len(inc) |-> inc[i].name]

\* Line 129: whether the run is batched.
Batched(batch) == batch > 0

\* Line 130 with a floor in place of the ceiling.
TotalBatchesFloor(n, batch) == n \div batch

\* Line 130.
TotalBatches(n, batch) == (n + batch - 1) \div batch

\* Line 134.
BatchStart(batch_no, batch) == batch_no * batch

\* Line 135.
BatchEnd(start, batch, n) == Min(start + batch, n)

\* Line 147 with the batch size 0 taken as a slice length.
UnbatchedEinsSliced(eins) == Slice(eins, 0, 0)

\* Line 147: the keys of the unbatched call.
UnbatchedEins(eins) == eins

\* ------------------------------------------------------------ main's inputs
\* Tables main reads: Tax ID one of three keys or empty, the Amount column
\* read as strings ("$250.50") or as numbers (100.0).
MainTables ==
    {tb \in SeqsUpTo({Row(k, a) : k \in {E1, E2, E3, Null}, a \in {Amount2, Num(10000)}},
                     MaxMainRows) : ReadCsvTyped(tb)}

\* config.fields: the output fields and their include flags.
FieldsConfigs ==
    {<<[name |-> "ein", include |-> TRUE],
       [name |-> "organization_name", include |-> FALSE],
       [name |-> "net_assets", include |-> TRUE],
       [name |-> "total_donated", include |-> TRUE],
       [name |-> "donation_count", include |-> TRUE]>>,
     <<[name |-> "ein", include |-> TRUE],
       [name |-> "total_donated", include |-> TRUE],
       [name |-> "donation_count", include |-> FALSE]>>}

\* config.input_aggregates.
InputAggregates ==
    {<<Entry("total_donated", [include |-> TRUE, csv_field |-> "Amount",
                               aggregation |-> "sum", data_clean |-> "currency"]),
       Entry("donation_count", [include |-> TRUE, csv_field |-> "Amount",
                                aggregation |-> "count"])>>,
     <<Entry("total_donated", [include |-> TRUE, csv_field |-> "Amount",
                               aggregation |-> "average", data_clean |-> "currency"]),
       Entry("donation_count", [include |-> TRUE, aggregation |-> "count"])>>,
     <<Entry("total_donated", [include |-> FALSE, csv_field |-> "Amount",
                               aggregation |-> "sum", data_clean |-> "currency"]),
       Entry("donation_count", [include |-> TRUE, csv_field |-> "Amount",
                                aggregation |-> "first", data_clean |-> "none"])>>,
     <<Entry("total_donated", [include |-> TRUE, csv_field |-> "Amount",
                               aggregation |-> "max", data_clean |-> "percent"])>>}

Configs ==
    [batch : {-1, 0, 1, 2, 3}, limit : {0, 2}, fields : FieldsConfigs,
     input_aggregates : InputAggregates]

NoConfig == [batch |-> 0, limit |-> 0, fields |-> <<>>, input_aggregates |-> <<>>]

\* What evaluate_charity(ein, ...) may return: a result with its nested
\* financial metrics, or one without them.
ProviderResults(ein) ==
    {[ein |-> ein,
      organization_name |-> Str(<<"a">>),
      total_donated |-> Num(0),
      financial_metrics |-> [net_assets |-> IntV(5)]],
     [ein |-> ein,
      organization_name |-> Str(<<"b">>)]}

\* ------------------------------------------------------------------- state
VARIABLES
    pc,               \* where the program is
    df,               \* the input table
    config,           \* the configuration main loaded
    unique_eins,      \* the keys of the run
    included_fields,  \* the output columns
    batch_num,        \* the batch loop's counter
    batch_eins,       \* process_batch's eins
    rows,             \* process_batch's rows
    calls,            \* the calls of process_batch made, in order: their eins
    processed,        \* per row appended, in order: the key and the provider's result
    written,          \* the files written, in order
    failure,          \* the exception that ended the run, if any
    agg_call          \* the call of compute_ein_aggregates made: ein, config, out

vars == <<pc, df, config, unique_eins, included_fields, batch_num, batch_eins,
          rows, calls, processed, written, failure, agg_call>>

mainvars == <<config, unique_eins, included_fields, batch_num, batch_eins,
              rows, calls, processed, written, failure>>

NoCall == [ein |-> Null, aggregate_config |-> <<>>,
           out |-> [raised |-> FALSE, result |-> <<>>]]

NoFailure == [cause |-> "none", ein |-> Null]

\* -------------------------------------------------------------------- main
Init ==
    /\ pc = "start"
    /\ df \in MainTables
    /\ config \in Configs
    /\ unique_eins = <<>>
    /\ included_fields = <<>>
    /\ batch_num = 0
    /\ batch_eins = <<>>
    /\ rows = <<>>
    /\ calls = <<>>
    /\ processed = <<>>
    /\ written = <<>>
    /\ failure = NoFailure
    /\ agg_call = NoCall

\* Lines 107-127: the keys and the output columns.
Setup ==
    /\ pc = "start"
    /\ unique_eins' = UniqueEins(df, config.limit)
    /\ included_fields' = IncludedFields(config.fields)
    /\ pc' = "dispatch"
    /\ UNCHANGED <<df, config, batch_num, batch_eins, rows, calls, processed,
                   written, failure, agg_call>>

\* Lines 133-139: one turn of the batch loop, up to the call of process_batch.
BeginBatch ==
    /\ pc = "dispatch"
    /\ Batched(config.batch)
    /\ batch_num < TotalBatches(Len(unique_eins), config.batch)
    /\ LET start == BatchStart(batch_num, config.batch)
           end == BatchEnd(start, config.batch, Len(unique_eins))
       IN  /\ batch_eins' = Slice(unique_eins, start, end)
           /\ calls' = Append(calls, Slice(unique_eins, start, end))
    /\ rows' = <<>>
    /\ pc' = "process_batch"
    /\ UNCHANGED <<df, config, unique_eins, included_fields, batch_num, processed,
                   written, failure, agg_call>>

\* Line 133: the batch loop ends.
EndBatches ==
    /\ pc = "dispatch"
    /\ Batched(config.batch)
    /\ batch_num >= TotalBatches(Len(unique_eins), config.batch)
    /\ pc' = "done"
    /\ UNCHANGED <<df, mainvars, agg_call>>

\* Lines 145-147: the unbatched call of process_batch.
BeginUnbatched ==
    /\ pc = "dispatch"
    /\ ~Batched(config.batch)
    /\ batch_eins' = UnbatchedEins(unique_eins)
    /\ calls' = Append(calls, UnbatchedEins(unique_eins))
    /\ rows' = <<>>
    /\ pc' = "process_batch"
    /\ UNCHANGED <<df, config, unique_eins, included_fields, batch_num, processed,
                   written, failure, agg_call>>

\* Line 85: evaluate_charity raises; nothing catches it, the run ends.
ProviderRaises ==
    /\ pc = "process_batch"
    /\ Len(rows) < Len(batch_eins)
    /\ failure' = [cause |-> "provider", ein |-> batch_eins[Len(rows) + 1]]
    /\ pc' = "failed"
    /\ UNCHANGED <<df, config, unique_eins, included_fields, batch_num, batch_eins,
                   rows, calls, processed, written, agg_call>>

\* Lines 82-90: one turn of process_batch's loop with evaluate_charity
\* returning.  An exception of compute_ein_aggregates ends the run.
EvaluateKey ==
    /\ pc = "process_batch"
    /\ Len(rows) < Len(batch_eins)
    /\ LET ein == batch_eins[Len(rows) + 1]
           agg == compute_ein_aggregates(df, ein, config.input_aggregates)
       IN  \E result \in ProviderResults(ein) :
             IF agg.raised
             THEN /\ failure' = [cause |-> "aggregate", ein |-> ein]
                  /\ pc' = "failed"
                  /\ UNCHANGED <<rows, processed>>
             ELSE /\ rows' = Append(rows, RowData(included_fields, result, agg.result))
                  /\ processed' = Append(processed, [ein |-> ein, result |-> result])
                  /\ UNCHANGED <<pc, failure>>
    /\ UNCHANGED <<df, config, unique_eins, included_fields, batch_num, batch_eins,
                   calls, written, agg_call>>

\* Lines 92 and 141-144, or 148-150: process_batch returns its table and main
\* writes it; file is the batch's number, 0 for the unbatched output.
WriteOutput ==
    /\ pc = "process_batch"
    /\ Len(rows) = Len(batch_eins)
    /\ written' = Append(written,
                         [file |-> IF Batched(config.batch) THEN batch_num + 1 ELSE 0,
                          table |-> DataFrame(rows, included_fields)])
    /\ IF Batched(config.batch)
       THEN batch_num' = batch_num + 1 /\ pc' = "dispatch"
       ELSE batch_num' = batch_num /\ pc' = "done"
    /\ UNCHANGED <<df, config, unique_eins, included_fields, batch_eins, rows,
                   calls, processed, failure, agg_call>>

Next ==
    \/ Setup
    \/ BeginBatch
    \/ EndBatches
    \/ BeginUnbatched
    \/ ProviderRaises
    \/ EvaluateKey
    \/ WriteOutput

Spec == Init /\ [][Next]_vars

\* ------------------------------------------- compute_ein_aggregates, alone
InitAgg ==
    /\ pc = "agg_ready"
    /\ df \in AggTables
    /\ agg_call = NoCall
    /\ config = NoConfig
    /\ unique_eins = <<>>
    /\ included_fields = <<>>
    /\ batch_num = 0
    /\ batch_eins = <<>>
    /\ rows = <<>>
    /\ calls = <<>>
    /\ processed = <<>>
    /\ written = <<>>
    /\ failure = NoFailure

\* One call of compute_ein_aggregates on the table.
Aggregate ==
    /\ pc = "agg_ready"
    /\ \E ein \in {E1, E3}, aggregate_config \in AggConfigs :
         LET out == compute_ein_aggregates(df, ein, aggregate_config)
         IN  /\ agg_call' = [ein |-> ein, aggregate_config |-> aggregate_config,
                             out |-> out]
             /\ pc' = IF out.raised THEN "agg_raised" ELSE "agg_returned"
    /\ UNCHANGED <<df, mainvars>>

NextAgg == Aggregate

SpecAgg == InitAgg /\ [][NextAgg]_vars
\* ================================================================== claims
RECURSIVE Flatten(_)
Flatten(seqs) == IF seqs = <<>> THEN <<>> ELSE Head(seqs) \o Flatten(Tail(seqs))

Range(xs) == {xs[i] : i \in 1..Len(xs)}

\* The keys for which a row was built, in order.
ProcessedEins == [i \in 1..Len(processed) |-> processed[i].ein]

\* The keys of the batches whose file was written, in order.
WrittenEins == Flatten(SubSeq(calls, 1, Len(written)))

\* C1: with a batch size b > 0 the chunks handed to process_batch are
\* contiguous slices of the key sequence in its order: concatenated they are
\* a prefix of it at every moment, and the whole of it when the loop has
\* ended; every chunk has between 1 and b keys and every chunk but the last
\* exactly b.  When main has ended, a row was built for every key, in order,
\* and one file per chunk was written, with one row per key of the chunk.
C1_BatchesPartitionKeys ==
    config.batch > 0 =>
      /\ Flatten(calls) = SubSeq(unique_eins, 1, Len(Flatten(calls)))
      /\ \A i \in 1..Len(calls) : Len(calls[i]) \in 1..config.batch
      /\ \A i \in 1..(Len(calls) - 1) : Len(calls[i]) = config.batch
      /\ pc = "done" =>
           /\ Flatten(calls) = unique_eins
           /\ ProcessedEins = unique_eins
           /\ Len(written) = Len(calls)
           /\ \A i \in 1..Len(written) :
                /\ written[i].file = i
                /\ Len(written[i].table.data) = Len(calls[i])

\* C1's case: three keys in batches of two have been processed as a chunk of
\* two and a chunk of one.
C1_Witness ==
    /\ pc = "done"
    /\ config.batch = 2
    /\ Len(unique_eins) = 3
    /\ Len(calls) = 2
    /\ Len(written) = 2

\* C2: with a batch size of 0 or less process_batch is called at most once,
\* with the whole key sequence, and at most one file is written; when main
\* has ended it was called exactly once, a row was built for every key in
\* order, and exactly one file, the unbatched one, holds a row per key.
C2_UnbatchedSingleRun ==
    config.batch <= 0 =>
      /\ Len(calls) <= 1
      /\ \A i \in 1..Len(calls) : calls[i] = unique_eins
      /\ Len(written) <= 1
      /\ pc = "done" =>
           /\ Len(calls) = 1
           /\ ProcessedEins = unique_eins
           /\ Len(written) = 1
           /\ written[1].file = 0
           /\ Len(written[1].table.data) = Len(unique_eins)

\* C2's case: a run with batch size 0 over three keys has ended.
C2_Witness ==
    /\ pc = "done"
    /\ config.batch = 0
    /\ Len(unique_eins) = 3
    /\ Len(written) = 1

\* C3: when the provider has failed for one key and the run has ended, every
\* other key's row has been written.
C3_ProviderFailureIsolated ==
    (pc \in {"done", "failed"} /\ failure.cause = "provider") =>
      \A k \in Range(unique_eins) \ {failure.ein} : k \in Range(WrittenEins)

\* Whether a configuration holds an unrecognized verb or cleaning rule.
Unrecognized(aggregate_config) ==
    \E i \in 1..Len(aggregate_config) :
      \/ Get(aggregate_config[i].cfg, "aggregation", None)
           \notin {"sum", "count", "max", "first"}
      \/ Get(aggregate_config[i].cfg, "data_clean", "none") \notin {"none", "currency"}

\* C4: with an unrecognized verb or cleaning rule in the configuration and a
\* table that is not empty, no key is ever processed: no row is built, no
\* file is written, and the run does not end normally.
C4_UnrecognizedVerbRejectedFirst ==
    (Unrecognized(config.input_aggregates) /\ df # <<>>) =>
      /\ processed = <<>>
      /\ written = <<>>
      /\ pc # "done"
\* The number of keys in the calls of process_batch before call i.
KeysBefore(i) == Len(Flatten(SubSeq(calls, 1, i - 1)))

\* The value of the aggregates of key ein under name, if they hold one.
AggregateOf(ein, name) ==
    LET res == compute_ein_aggregates(df, ein, config.input_aggregates).result
    IN  {res[i].val : i \in {j \in 1..Len(res) : res[j].name = name}}

\* C10: the table of every call of process_batch that returned has the
\* included output fields as its columns, in their order, and one row per
\* key of the call, in the keys' order; a cell holds the key's aggregate of
\* the column's name when there is one, and else what extract_field_value
\* gives for the provider's result of that key.
C10_BatchTableRows ==
    \A i \in 1..Len(written) :
      LET tb == written[i].table
      IN  /\ tb.columns = IncludedFields(config.fields)
          /\ Len(tb.data) = Len(calls[i])
          /\ \A r \in 1..Len(tb.data) :
               LET p == processed[KeysBefore(i) + r]
               IN  /\ p.ein = calls[i][r]
                   /\ Len(tb.data[r]) = Len(tb.columns)
                   /\ \A c \in 1..Len(tb.columns) :
                        LET agg == AggregateOf(p.ein, tb.columns[c])
                        IN  IF agg # {} THEN tb.data[r][c] \in agg
                            ELSE tb.data[r][c] = extract_field_value(p.result, tb.columns[c])

\* C10's case: a written table of two rows or more where the aggregates hold
\* a field that is no column (donation_count) and the aggregate of
\* total_donated stands in place of the provider's value.
C10_Witness ==
    /\ written # <<>>
    /\ Len(written[1].table.data) >= 2
    /\ written[1].table.columns = <<"ein", "total_donated">>
    /\ AggregateOf(processed[1].ein, "donation_count") # {}
    /\ HasAttr(processed[1].result, "total_donated")
    /\ AggregateOf(processed[1].ein, "total_donated") = {written[1].table.data[1][2]}
    /\ written[1].table.data[1][2] # processed[1].result.total_donated

\* ---------------------------------------------- claims on the aggregation
Called == pc \in {"agg_returned", "agg_raised"}

\* The rows of the table whose Tax ID is the key of the call.
KeyRows == {i \in 1..Len(df) : df[i]["Tax ID"] = agg_call.ein}

\* The entries of the call's configuration.
CallEntries == Range(agg_call.aggregate_config)

\* Whether the returned record holds val under name.
Holds(name, val) ==
    \E i \in 1..Len(agg_call.out.result) :
      agg_call.out.result[i] = [name |-> name, val |-> val]

\* Whether the returned record has a field name.
Present(name) ==
    \E i \in 1..Len(agg_call.out.result) : agg_call.out.result[i].name = name

IncludeTrue(cfg) == "include" \in DOMAIN cfg /\ cfg.include = TRUE

\* C5: a returned record holds, for every included entry with verb count,
\* the number of the key's rows when that number is at least 1, whatever
\* the entry's source column is and whether it names one.
C5_CountIgnoresSourceColumn ==
    (pc = "agg_returned" /\ KeyRows # {}) =>
      \A e \in CallEntries :
        (IncludeTrue(e.cfg) /\ Get(e.cfg, "aggregation", None) = "count")
          => Holds(e.name, IntV(Cardinality(KeyRows)))

\* C6: a call for a key that no row of the table has returns, without
\* raising, the empty record.
C6_NoRowsGivesEmptyRecord ==
    (Called /\ KeyRows = {}) =>
      /\ pc = "agg_returned"
      /\ agg_call.out.result = <<>>

\* C6's case: a key absent from a table of two rows or more, with an entry
\* that is included.
C6_Witness ==
    /\ pc = "agg_returned"
    /\ Len(df) >= 2
    /\ KeyRows = {}
    /\ \E e \in CallEntries : IncludeTrue(e.cfg) /\ Get(e.cfg, "csv_field", None) = "Amount"

\* What a cell adds to a currency sum: its number once $ and , are
\* stripped, nothing when that is no number.
Usable(i) ==
    LET c == df[i]["Amount"]
    IN  IF c.k = "str" /\ ParseFloat(StripCurrency(c.s)).ok
        THEN ParseFloat(StripCurrency(c.s)).v
        ELSE IF c.k = "num" THEN c.v ELSE 0

RECURSIVE UsableSum(_)
\* The sum of the usable values of the rows S.
UsableSum(S) ==
    IF S = {} THEN 0
    ELSE LET i == CHOOSE x \in S : TRUE IN Usable(i) + UsableSum(S \ {i})

\* C7: a returned record holds, for every included entry with verb sum and
\* cleaning currency on the Amount column, the sum of the usable values of
\* the key's rows, as a number.
C7_CurrencySumExcludesUnusable ==
    (pc = "agg_returned" /\ KeyRows # {}) =>
      \A e \in CallEntries :
        (/\ IncludeTrue(e.cfg)
         /\ Get(e.cfg, "csv_field", None) = "Amount"
         /\ Get(e.cfg, "aggregation", None) = "sum"
         /\ Get(e.cfg, "data_clean", "none") = "currency")
          => Holds(e.name, Num(UsableSum(KeyRows)))

\* A configuration without configuration errors: every verb and cleaning
\* rule is a known one, and sum, max and first name their source column.
ValidConfig(aggregate_config) ==
    \A i \in 1..Len(aggregate_config) :
      LET cfg == aggregate_config[i].cfg
      IN  /\ "aggregation" \in DOMAIN cfg
          /\ cfg.aggregation \in {"sum", "count", "max", "first"}
          /\ Get(cfg, "data_clean", "none") \in {"none", "currency"}
          /\ cfg.aggregation # "count" => "csv_field" \in DOMAIN cfg

\* C8: a call with a valid configuration never raises, and its record holds
\* the row count of every included count entry on the Amount column,
\* whatever the cells of the other entry's column are.
C8_NeverRaisesOnRowData ==
    (Called /\ ValidConfig(agg_call.aggregate_config)) =>
      /\ pc = "agg_returned"
      /\ KeyRows # {} =>
           \A e \in CallEntries :
             (/\ IncludeTrue(e.cfg)
              /\ Get(e.cfg, "csv_field", None) = "Amount"
              /\ e.cfg.aggregation = "count")
               => Present(e.name)

\* The place of a field name in the call's configuration.
ConfigIndex(name) ==
    CHOOSE j \in 1..Len(agg_call.aggregate_config) :
      agg_call.aggregate_config[j].name = name

\* C9: every field of a returned record is named by a configuration entry
\* whose include flag is given and true, and the record's fields are in the
\* order of the configuration.
C9_OnlyIncludedFieldsInOrder ==
    pc = "agg_returned" =>
      LET res == agg_call.out.result
      IN  /\ \A i \in 1..Len(res) :
                \E e \in CallEntries : e.name = res[i].name /\ IncludeTrue(e.cfg)
          /\ \A i, j \in 1..Len(res) :
                i < j => ConfigIndex(res[i].name) < ConfigIndex(res[j].name)

\* C9's case: the key has rows, the first entry is stored, and the second,
\* which gives no include flag, is not.
C9_Witness ==
    /\ pc = "agg_returned"
    /\ KeyRows # {}
    /\ Len(agg_call.aggregate_config) = 2
    /\ "include" \notin DOMAIN agg_call.aggregate_config[2].cfg
    /\ Get(agg_call.aggregate_config[2].cfg, "aggregation", None) = "first"
    /\ Len(agg_call.out.result) = 1
    /\ agg_call.out.result[1].name = agg_call.aggregate_config[1].name
====
